---- MODULE Spec2Model ----
(***************************************************************************)
(* MallDepot warehouse: stock administration and the synchronisation with  *)
(* the storefront (sync run and store reset), modelled from                *)
(* app/sync/routes.py, app/utilities/sync_utilities.py,                    *)
(* app/stock/routes.py and app/models.py.                                  *)
(*                                                                         *)
(* One request is served at a time: a run is split at its transport calls  *)
(* and at the events of the purchase batch, the administrative requests    *)
(* run between runs.                                                       *)
(***************************************************************************)
EXTENDS Integers, Sequences, FiniteSets, TLC

\* ---------------------------------------------------------------- bounds
MaxUnits   == 2     \* largest units_in_stock an operator enters
MaxQty     == 1     \* largest quantity of one purchase event
MaxBatch   == 2     \* largest number of purchase events in one download
MaxDeleted == 2     \* rows of deleted_items the model lets accumulate
MaxRuns    == 1     \* runs recorded in sync_history the model follows the warehouse for
MaxFaults  == 1     \* database errors the model lets one run meet

\* Item codes the operators use. The store sells "A" and, by mistake, "Z",
\* a code the warehouse never had; nobody buys "B".
Codes         == {"A", "B"}
PurchaseCodes == {"A", "Z"}

ItemStatus == {"FOR_SALE", "NOT_FOR_SALE"}

\* ------------------------------------------------------------ the tables
VARIABLES
    items,              \* table items: id -> row (models.Item)
    deleted,            \* table deleted_items, in id order (models.DeletedItem)
    purchase_history,   \* table purchase_history, in id order
    issues,             \* table issues, in id order (committed rows)
    sync_history,       \* table sync_history, in id order
    session_issues,     \* Issue objects added to db.session, not yet committed
\* ------------------------------------------------- the request in progress
    pc,                 \* where the request being served stands
    error_code,         \* local error_code of sync() / webshop_reset()
    webshop_purchases,  \* the batch download_data returned
    k,                  \* index of the next event of update_stock_data's loop
    stock_result,       \* update_stock_data's (success, issues_raised)
    sync_data,          \* the payload built for upload_data
    run,                \* what the run did so far (observation only)
    snap,               \* items and deleted as they were when the run began
    delivered,          \* item id -> the fields the store holds for it, for the
                        \* items sent and not edited since (observation only)
    pc2,                \* where a second sync request, served meanwhile, stands
    op_result           \* the OperationResult of a call of set_single_value_on_list
                        \* made on its own

tables == <<items, deleted, purchase_history, issues, sync_history, session_issues>>
locals == <<pc, error_code, webshop_purchases, k, stock_result, sync_data>>
vars   == <<items, deleted, purchase_history, issues, sync_history, session_issues,
            pc, error_code, webshop_purchases, k, stock_result, sync_data, run, snap,
            delivered, pc2, op_result>>

\* ------------------------------------------------------------- helpers
Max(S) == CHOOSE x \in S : \A y \in S : y <= x
Min(S) == CHOOSE x \in S : \A y \in S : x <= y

\* The ids of a table in ascending order (the order SQLite scans a table in).
RECURSIVE IdsInOrder(_)
IdsInOrder(S) ==
    IF S = {} THEN << >> ELSE <<Min(S)>> \o IdsInOrder(S \ {Min(S)})

\* Query.filter_by(code=code).first() on a table: the id of the first row
\* with that code, 0 when there is none.
First(table, code) ==
    LET hits == {i \in DOMAIN table : table[i].code = code}
    IN  IF hits = {} THEN 0 ELSE Min(hits)

\* The id SQLite gives a new row of items (INTEGER PRIMARY KEY: max + 1).
NewItemId == IF DOMAIN items = {} THEN 1 ELSE Max(DOMAIN items) + 1

EmptyPayload ==
    [deleted |-> << >>, not_for_sale |-> << >>,
     out_of_stock |-> << >>, stock_updates |-> << >>]

NoRun ==
    [type |-> "NONE", download |-> "none", history |-> "none",
     upload |-> "none", wipe |-> "none",
     sent_items |-> {}, sent_deleted |-> {},
     get_calls |-> 0, post_calls |-> 0, wipe_calls |-> 0,
     applied |-> {}, records |-> 0, flags_reset |-> FALSE, reset_failed |-> FALSE,
     db_errors |-> 0, edited |-> {}, redelivered |-> FALSE, earlier |-> {}]

NoSnap == [items |-> << >>, deleted |-> << >>, issues |-> 0, history |-> 0, audits |-> 0]

\* The tables as a request finds them.
TakeSnap ==
    [items |-> items, deleted |-> deleted, issues |-> Len(issues),
     history |-> Len(purchase_history), audits |-> Len(sync_history)]

\* The fields of an item the store is sent (prepare_updates_advanced's
\* attributes, as far as the tables of the model hold them).
Visible(row) ==
    [code |-> row.code, status |-> row.status, units_in_stock |-> row.units_in_stock]

\* The store's view after an upload it accepted: the rows sent replace
\* what the store held for them (a row edited since the payload was built
\* is not in the store as it now is).
Deliver(ids) ==
    LET sent == ids \ run.edited
    IN  [i \in DOMAIN delivered \cup sent |->
            IF i \in sent THEN Visible(items[i]) ELSE delivered[i]]

\* OperationResult() as constructed (the counts the model follows).
NoResult ==
    [result_code |-> "NOT_PERFORMED", updated_count |-> 0, not_found_count |-> 0,
     erroneous_count |-> 0]

\* The database outlives the process. It is empty, or it holds one item
\* for sale that an earlier run delivered to the store (requires_sync = False).
DeliveredItems ==
    [code : {"A"}, status : {"FOR_SALE"}, units_in_stock : 0..MaxUnits,
     units_purchased : {0}, requires_sync : {FALSE}]

Init ==
    /\ items \in {<< >>} \cup {<<row>> : row \in DeliveredItems}
    /\ deleted = << >>
    /\ purchase_history = << >>
    /\ issues = << >>
    /\ sync_history = << >>
    /\ session_issues = << >>
    /\ pc = "idle"
    /\ error_code = 0
    /\ webshop_purchases = << >>
    /\ k = 0
    /\ stock_result = [success |-> TRUE, issues_raised |-> 0]
    /\ sync_data = EmptyPayload
    /\ run = NoRun
    /\ snap = NoSnap
    /\ delivered = [i \in DOMAIN items |-> Visible(items[i])]
    /\ pc2 = "idle"
    /\ op_result = NoResult

\* ------------------------------------------------- stock administration
\* add_item: the form requires code, units_in_stock >= 0 and a status; a
\* code already in items violates the unique constraint and adds nothing.
AddItem(code, status, units) ==
    /\ pc = "idle"
    /\ Len(sync_history) < MaxRuns
    /\ First(items, code) = 0
    /\ items' = (NewItemId :> [code |-> code, status |-> status,
                               units_in_stock |-> units, units_purchased |-> 0,
                               requires_sync |-> TRUE]) @@ items
    /\ UNCHANGED <<deleted, purchase_history, issues, sync_history, session_issues,
                   locals, run, snap, delivered, pc2, op_result>>

\* (mutant) the form fields are written, requires_sync is left as it is
EditItem_keeps_flag(id, code, status, units) ==
    /\ pc = "idle"
    /\ Len(sync_history) < MaxRuns
    /\ id \in DOMAIN items
    /\ First(items, code) \in {0, id}
    /\ items' = [items EXCEPT ![id] =
                    [@ EXCEPT !.code = code, !.status = status,
                              !.units_in_stock = units]]
    /\ delivered' = [i \in DOMAIN delivered \ {id} |-> delivered[i]]
    /\ UNCHANGED <<deleted, purchase_history, issues, sync_history, session_issues,
                   locals, run, snap, pc2, op_result>>
\* edit_item: every form field is written and requires_sync is set; a code
\* that another item holds violates the unique constraint, nothing is written.
EditItem(id, code, status, units) ==
    /\ pc = "idle"
    /\ Len(sync_history) < MaxRuns
    /\ id \in DOMAIN items
    /\ First(items, code) \in {0, id}
    /\ items' = [items EXCEPT ![id] =
                    [@ EXCEPT !.code = code, !.status = status,
                              !.units_in_stock = units, !.requires_sync = TRUE]]
    \* the item is to be sent again: what the store holds for it is outdated
    /\ delivered' = [i \in DOMAIN delivered \ {id} |-> delivered[i]]
    /\ UNCHANGED <<deleted, purchase_history, issues, sync_history, session_issues,
                   locals, run, snap, pc2, op_result>>

\* (mutant) deleted_items keeps the row of the last deletion only
DeleteItem_keeps_latest(id, db_ok) ==
    /\ pc = "idle"
    /\ Len(sync_history) < MaxRuns
    /\ id \in DOMAIN items
    /\ Len(deleted) < MaxDeleted
    /\ IF db_ok
       THEN /\ deleted' = <<[code |-> items[id].code, requires_sync |-> TRUE]>>
            /\ items' = [i \in DOMAIN items \ {id} |-> items[i]]
            /\ delivered' = [i \in DOMAIN delivered \ {id} |-> delivered[i]]
       ELSE UNCHANGED <<deleted, items, delivered>>
    /\ UNCHANGED <<purchase_history, issues, sync_history, session_issues,
                   locals, run, snap, pc2, op_result>>
\* (mutant) the DeletedItem row is committed on its own, before the item is
\* deleted: a database error on the second commit leaves both rows
DeleteItem_two_commits(id, db_ok) ==
    /\ pc = "idle"
    /\ Len(sync_history) < MaxRuns
    /\ id \in DOMAIN items
    /\ Len(deleted) < MaxDeleted
    /\ deleted' = Append(deleted, [code |-> items[id].code, requires_sync |-> TRUE])
    /\ IF db_ok
       THEN /\ items' = [i \in DOMAIN items \ {id} |-> items[i]]
            /\ delivered' = [i \in DOMAIN delivered \ {id} |-> delivered[i]]
       ELSE UNCHANGED <<items, delivered>>
    /\ UNCHANGED <<purchase_history, issues, sync_history, session_issues,
                   locals, run, snap, pc2, op_result>>
\* delete_item: a DeletedItem row with the item's code is added and the
\* item is removed, in one commit; a database error on that commit is
\* followed by db.session.rollback(), which leaves both tables as they were.
DeleteItem(id, db_ok) ==
    /\ pc = "idle"
    /\ Len(sync_history) < MaxRuns
    /\ id \in DOMAIN items
    /\ Len(deleted) < MaxDeleted
    /\ IF db_ok
       THEN /\ deleted' = Append(deleted, [code |-> items[id].code,
                                           requires_sync |-> TRUE])
            /\ items' = [i \in DOMAIN items \ {id} |-> items[i]]
            /\ delivered' = [i \in DOMAIN delivered \ {id} |-> delivered[i]]
       ELSE UNCHANGED <<deleted, items, delivered>>
    /\ UNCHANGED <<purchase_history, issues, sync_history, session_issues,
                   locals, run, snap, pc2, op_result>>

\* ------------------------------------------------------------ transport
\* download_data: (True, json) only for status 200; a non-200 status
\* ("status") and a connection error, a timeout or any other request
\* exception ("conn") give (False, None, message).
DownloadOutcomes == {"ok", "status", "conn"}
\* (mutant) any response counts as a download, whatever its status
download_success_any_status(outcome) == outcome \in {"ok", "status"}
download_success(outcome) == outcome = "ok"

\* upload_data: response.json() for status 200 ("truthy"/"falsy": a body
\* Python takes for true/false), None for a non-200 status ("status") and
\* for a connection error, a timeout or any other request exception ("conn").
UploadOutcomes == {"truthy", "falsy", "status", "conn"}
\* (mutant) the result of upload_data is not tested
UploadFailed_never(outcome) == FALSE
\* (mutant) `if upload_result is None`
UploadFailed_only_none(outcome) == outcome \in {"status", "conn"}
UploadFailed(outcome) == outcome # "truthy"       \* `if not upload_result`

\* The purchase events the store may return: any quantity of "A", zero
\* included, and "Z" by the piece (the quantity of an event whose code the
\* warehouse does not hold is never used).
Events  ==
    {e \in [code : PurchaseCodes, quantity : 0..MaxQty] : e.code = "Z" => e.quantity = 1}
Batches == UNION {[1..n -> Events] : n \in 0..MaxBatch}

\* ------------------------------------------------------- the categorizer
\* prepare_updates(DeletedItem, requires_sync=True)
DeletedIds(del) == {i \in DOMAIN del : del[i].requires_sync}
\* prepare_updates(Item, requires_sync=True, status=NOT_FOR_SALE)
NotForSaleIds(it) ==
    {i \in DOMAIN it : it[i].requires_sync /\ it[i].status = "NOT_FOR_SALE"}
\* (mutant) units_in_stock=('<', 0)
OutOfStockIds_below_zero(it) ==
    {i \in DOMAIN it : /\ it[i].requires_sync
                       /\ it[i].status = "FOR_SALE"
                       /\ it[i].units_in_stock < 0}
\* prepare_updates_advanced(Item, requires_sync=True, status=FOR_SALE, units_in_stock <= 0)
OutOfStockIds(it) ==
    {i \in DOMAIN it : /\ it[i].requires_sync
                       /\ it[i].status = "FOR_SALE"
                       /\ it[i].units_in_stock <= 0}
\* (mutant) the stock updates are left out of the payload
StockUpdateIds_left_out(it) == {}
\* prepare_updates_advanced(Item, requires_sync=True, status=FOR_SALE, units_in_stock > 0)
StockUpdateIds(it) ==
    {i \in DOMAIN it : /\ it[i].requires_sync
                       /\ it[i].status = "FOR_SALE"
                       /\ it[i].units_in_stock > 0}
\* (mutant) the reset's catalog with requires_sync=True among the filters
ResetIds_pending_only(it) ==
    {i \in DOMAIN it : /\ it[i].requires_sync
                       /\ it[i].status = "FOR_SALE"
                       /\ it[i].units_in_stock > 0}
\* prepare_updates_advanced(Item, status=FOR_SALE, units_in_stock > 0): the reset's catalog
ResetIds(it) ==
    {i \in DOMAIN it : it[i].status = "FOR_SALE" /\ it[i].units_in_stock > 0}

\* The projection of the selected rows to the attributes sent, in id order.
CodeEntries(table, ids) ==
    LET order == IdsInOrder(ids)
    IN  [n \in 1..Len(order) |-> [code |-> table[order[n]].code]]
StockEntries(table, ids) ==
    LET order == IdsInOrder(ids)
    IN  [n \in 1..Len(order) |->
            [code |-> table[order[n]].code,
             units_in_stock |-> table[order[n]].units_in_stock]]

\* (mutant) the lists are built from the tables as they were before the download
BuildSyncData_before_download(it, del) ==
    [deleted       |-> CodeEntries(snap.deleted, DeletedIds(snap.deleted)),
     not_for_sale  |-> CodeEntries(snap.items, NotForSaleIds(snap.items)),
     out_of_stock  |-> CodeEntries(snap.items, OutOfStockIds(snap.items)),
     stock_updates |-> StockEntries(snap.items, StockUpdateIds(snap.items))]
\* sync(): the four lists of sync_data
BuildSyncData(it, del) ==
    [deleted       |-> CodeEntries(del, DeletedIds(del)),
     not_for_sale  |-> CodeEntries(it, NotForSaleIds(it)),
     out_of_stock  |-> CodeEntries(it, OutOfStockIds(it)),
     stock_updates |-> StockEntries(it, StockUpdateIds(it))]

\* webshop_reset(): sync_data holds the catalog alone
BuildResetData(it) ==
    [EmptyPayload EXCEPT !.stock_updates = StockEntries(it, ResetIds(it))]

\* ------------------------------------------------------ the flag reset
\* set_single_value_on_list's loop: for each entry, the first row with the
\* entry's code gets requires_sync = new_value; the counts are kept.
RECURSIVE SetLoop(_, _, _)
SetLoop(acc, entries, n) ==
    IF n > Len(entries) THEN acc
    ELSE IF "code" \notin DOMAIN entries[n]
         THEN SetLoop([acc EXCEPT !.erroneous = @ + 1], entries, n + 1)
         ELSE LET id == First(acc.table, entries[n].code)
              IN  IF id # 0
                  THEN SetLoop([acc EXCEPT !.table[id].requires_sync = FALSE,
                                           !.updated = @ + 1], entries, n + 1)
                  ELSE SetLoop([acc EXCEPT !.not_found = @ + 1], entries, n + 1)

\* (mutant) an update of the whole table: every row gets requires_sync = False
set_single_value_on_list_every_row(table, entries, db_ok) ==
    IF db_ok
    THEN [table |-> [i \in DOMAIN table |-> [table[i] EXCEPT !.requires_sync = FALSE]],
          updated |-> Len(entries), not_found |-> 0, erroneous |-> 0,
          result_code |-> "SUCCESS"]
    ELSE [table |-> table, updated |-> 0, not_found |-> 0, erroneous |-> 0,
          result_code |-> "FAILURE"]
\* set_single_value_on_list(target_model, 'code', items_to_update, 'code',
\* 'requires_sync', False): the commit at the end either stores the loop's
\* writes or, on a database error, rolls them back.
set_single_value_on_list(table, entries, db_ok) ==
    LET done == SetLoop([table |-> table, updated |-> 0, not_found |-> 0,
                         erroneous |-> 0], entries, 1)
    IN  IF db_ok
        THEN \* result.update passes updated_count and not_found_count only
             [done EXCEPT !.erroneous = 0] @@ [result_code |-> "SUCCESS"]
        ELSE [table |-> table, updated |-> 0, not_found |-> 0, erroneous |-> 0,
              result_code |-> "FAILURE"]

\* The number of database errors among the commits of a step.
Faults(oks) == Cardinality({n \in DOMAIN oks : ~oks[n]})

\* ------------------------------------------------- the purchase applier
\* update_purchase_data: the loop returns True right after the commit of
\* the first event's PurchaseHistory row, False after a database error on it.
\* The rows it leaves in purchase_history.
update_purchase_data(history, batch, db_ok) ==
    IF batch = << >> THEN [ok |-> TRUE, history |-> history]
    ELSE IF db_ok THEN [ok |-> TRUE, history |-> Append(history, batch[1])]
         ELSE [ok |-> FALSE, history |-> history]

\* (mutant) the Issue is built, never added to the session
DeletedItemIssue_not_added(code) == << >>
\* The Issue the deleted-item branch adds to the session (db.session.add).
DeletedItemIssue(code) == <<[kind |-> "deleted", code |-> code]>>

\* (mutant) item.units_in_stock = new_stock in both branches
ClampedStock_unclamped(new_stock) == new_stock
\* What the live-item branch writes to item.units_in_stock.
ClampedStock(new_stock) == IF new_stock <= 0 THEN 0 ELSE new_stock

\* One pass of update_stock_data's loop body, up to its commit:
\*   table   items as the pass leaves them in the session
\*   added   the Issue the pass adds to the session (db.session.add), if any
\*   raised  what the pass adds to issues_raised
\*   commits whether the pass reaches db.session.commit() (the anomaly
\*           branches `continue` before it)
StockPass(it, del, purchase) ==
    LET item         == First(it, purchase.code)
        deleted_item == First(del, purchase.code)
        new_stock    == it[item].units_in_stock - purchase.quantity
    IN  IF item = 0 /\ deleted_item = 0
        THEN \* the Issue is built and counted, never added to the session
             [table |-> it, added |-> << >>, raised |-> 1, commits |-> FALSE]
        ELSE IF deleted_item # 0
        THEN [table |-> it,
              added |-> DeletedItemIssue(purchase.code),
              raised |-> 1, commits |-> FALSE]
        ELSE IF new_stock <= 0
        THEN [table |-> [it EXCEPT ![item].units_in_stock = ClampedStock(new_stock),
                                   ![item].units_purchased = @ + purchase.quantity],
              added |-> <<[kind |-> "out_of_stock", code |-> purchase.code]>>,
              raised |-> 1, commits |-> TRUE]
        ELSE [table |-> [it EXCEPT ![item].units_in_stock = ClampedStock(new_stock),
                                   ![item].units_purchased = @ + purchase.quantity],
              added |-> << >>, raised |-> 0, commits |-> TRUE]

\* (mutant) `if issues_raised:`
StockUpdateFailed_on_issues(result) == result.issues_raised > 0
\* `if not update_stock_data(...)`: the value tested is the tuple
\* (success, message, issues_raised), which Python takes for true.
StockUpdateFailed(result) == FALSE

\* ------------------------------------------------------------- the audit
\* SyncHistory(remote_name=..., timestamp_start=..., timestamp_end=...,
\* connection_type=type, error_code=code): updates_received and updates_sent
\* are not given and take the column default, 0.
SyncRecord(type, code) ==
    [connection_type |-> type, error_code |-> code,
     updates_received |-> 0, updates_sent |-> 0]

\* db.session.add(sync_record); db.session.commit(): the commit also
\* stores whatever else the session holds.
WriteAudit(type, code) ==
    /\ sync_history' = Append(sync_history, SyncRecord(type, code))
    /\ issues' = issues \o session_issues
    /\ session_issues' = << >>

\* ------------------------------------------------------------ the sync run
\* sync(), lines 132-155: the download and what it decides.
SyncDownload(outcome, batch) ==
    /\ pc = "idle"
    /\ Len(sync_history) < MaxRuns
    /\ snap' = TakeSnap
    /\ run' = [NoRun EXCEPT !.type = "SYNC", !.download = outcome, !.get_calls = 1]
    /\ IF download_success(outcome)
       THEN /\ webshop_purchases' = batch
            /\ error_code' = 0
            /\ pc' = IF batch # << >> THEN "store_history" ELSE "check"
       ELSE /\ batch = << >>
            /\ webshop_purchases' = << >>
            /\ error_code' = 1
            /\ pc' = "check"
    /\ UNCHANGED <<tables, k, stock_result, sync_data, delivered, pc2, op_result>>

\* sync(), lines 142-146: update_purchase_data and the test of its result;
\* the failure branch sets error_code and goes on to update_stock_data.
UpdatePurchaseData(db_ok) ==
    /\ pc = "store_history"
    /\ run.db_errors + Faults(<<db_ok>>) <= MaxFaults
    /\ LET result == update_purchase_data(purchase_history, webshop_purchases, db_ok)
       IN  /\ purchase_history' = result.history
           /\ error_code' = IF result.ok THEN error_code ELSE 2
           /\ run' = [run EXCEPT !.history = IF result.ok THEN "ok" ELSE "fail",
                                 !.db_errors = @ + Faults(<<result.ok>>)]
    /\ pc' = "apply_stock"
    /\ k' = 1
    /\ stock_result' = [success |-> TRUE, issues_raised |-> 0]
    /\ UNCHANGED <<items, deleted, issues, sync_history, session_issues,
                   webshop_purchases, sync_data, snap, delivered, pc2, op_result>>

\* (mutant) the except branch breaks without db.session.rollback()
UpdateStockData_partial_commit(db_ok) ==
    /\ pc = "apply_stock"
    /\ run.db_errors + Faults(<<db_ok>>) <= MaxFaults
    /\ k <= Len(webshop_purchases)
    /\ LET pass   == StockPass(items, deleted, webshop_purchases[k])
           raised == stock_result.issues_raised + pass.raised
           failed == pass.commits /\ ~db_ok
           result == [success |-> ~failed, issues_raised |-> raised]
           ends   == failed \/ k = Len(webshop_purchases)
       IN  /\ pass.commits \/ db_ok
           /\ IF ~pass.commits
              THEN \* `continue`: what was added stays in the session
                   /\ session_issues' = session_issues \o pass.added
                   /\ UNCHANGED <<items, issues>>
                   /\ run' = run
              ELSE IF db_ok
              THEN \* commit
                   /\ items' = pass.table
                   /\ issues' = issues \o session_issues \o pass.added
                   /\ session_issues' = << >>
                   /\ run' = [run EXCEPT !.applied = @ \cup {k}]
              ELSE \* break without rollback: the next commit stores the session
                   /\ session_issues' = << >>
                   /\ items' = pass.table
                   /\ issues' = issues \o session_issues \o pass.added
                   /\ run' = [run EXCEPT !.db_errors = @ + 1]
           /\ stock_result' = result
           /\ k' = k + 1
           /\ pc' = IF ends THEN "check" ELSE "apply_stock"
           /\ error_code' = IF ends /\ StockUpdateFailed(result) THEN 3 ELSE error_code
    /\ UNCHANGED <<deleted, purchase_history, sync_history, webshop_purchases,
                   sync_data, snap, delivered, pc2, op_result>>
\* update_stock_data: one pass of the loop over the batch, and, when the
\* loop ends, sync()'s test of the returned value (lines 147-151).
UpdateStockData(db_ok) ==
    /\ pc = "apply_stock"
    /\ run.db_errors + Faults(<<db_ok>>) <= MaxFaults
    /\ k <= Len(webshop_purchases)
    /\ LET pass   == StockPass(items, deleted, webshop_purchases[k])
           raised == stock_result.issues_raised + pass.raised
           failed == pass.commits /\ ~db_ok
           result == [success |-> ~failed, issues_raised |-> raised]
           ends   == failed \/ k = Len(webshop_purchases)
       IN  /\ pass.commits \/ db_ok
           /\ IF ~pass.commits
              THEN \* `continue`: what was added stays in the session
                   /\ session_issues' = session_issues \o pass.added
                   /\ UNCHANGED <<items, issues>>
                   /\ run' = run
              ELSE IF db_ok
              THEN \* commit
                   /\ items' = pass.table
                   /\ issues' = issues \o session_issues \o pass.added
                   /\ session_issues' = << >>
                   /\ run' = [run EXCEPT !.applied = @ \cup {k}]
              ELSE \* rollback, break
                   /\ session_issues' = << >>
                   /\ UNCHANGED <<items, issues>>
                   /\ run' = [run EXCEPT !.db_errors = @ + 1]
           /\ stock_result' = result
           /\ k' = k + 1
           /\ pc' = IF ends THEN "check" ELSE "apply_stock"
           /\ error_code' = IF ends /\ StockUpdateFailed(result) THEN 3 ELSE error_code
    /\ UNCHANGED <<deleted, purchase_history, sync_history, webshop_purchases,
                   sync_data, snap, delivered, pc2, op_result>>

\* sync(), lines 158-208: a run with an error code writes its record and
\* ends; any other run builds sync_data.
SyncCheck ==
    /\ pc = "check"
    /\ run.type = "SYNC"
    /\ IF error_code # 0
       THEN /\ WriteAudit("SYNC", error_code)
            /\ run' = [run EXCEPT !.records = @ + 1]
            /\ pc' = "failed"
            /\ UNCHANGED sync_data
       ELSE /\ sync_data' = BuildSyncData(items, deleted)
            /\ run' = [run EXCEPT
                          !.sent_deleted = DeletedIds(deleted),
                          !.sent_items = NotForSaleIds(items) \cup OutOfStockIds(items)
                                            \cup StockUpdateIds(items)]
            /\ pc' = "upload"
            /\ UNCHANGED <<sync_history, issues, session_issues>>
    /\ UNCHANGED <<items, deleted, purchase_history, error_code, webshop_purchases,
                   k, stock_result, snap, delivered, pc2, op_result>>

\* (mutant) a failed upload is sent again
SyncUpload_retries(outcome) ==
    /\ pc = "upload"
    /\ IF UploadFailed(outcome)
       THEN /\ run' = [run EXCEPT !.upload = outcome, !.post_calls = @ + 1]
            /\ pc' = "upload"
            /\ UNCHANGED <<delivered, error_code, sync_history, issues, session_issues>>
       ELSE /\ run' = [run EXCEPT !.upload = outcome, !.post_calls = @ + 1]
            /\ pc' = "reset_flags"
            /\ delivered' = Deliver(run.sent_items)
            /\ UNCHANGED <<error_code, sync_history, issues, session_issues>>
    /\ UNCHANGED <<items, deleted, purchase_history, webshop_purchases, k,
                   stock_result, sync_data, snap, pc2, op_result>>
\* sync(), lines 212-228: the upload and the test of its result.
SyncUpload(outcome) ==
    /\ pc = "upload"
    /\ IF UploadFailed(outcome)
       THEN /\ error_code' = 1
            /\ WriteAudit("SYNC", 1)
            /\ run' = [run EXCEPT !.upload = outcome, !.post_calls = @ + 1,
                                  !.records = @ + 1]
            /\ pc' = "failed"
            /\ UNCHANGED delivered
       ELSE /\ run' = [run EXCEPT !.upload = outcome, !.post_calls = @ + 1]
            /\ pc' = "reset_flags"
            /\ delivered' = Deliver(run.sent_items)
            /\ UNCHANGED <<error_code, sync_history, issues, session_issues>>
    /\ UNCHANGED <<items, deleted, purchase_history, webshop_purchases, k,
                   stock_result, sync_data, snap, pc2, op_result>>

\* sync(), lines 233-269: the four flag resets, then the record of the run.
\* The first reset's commit (or rollback) empties the session.
SyncResetFlags(ok1, ok2, ok3, ok4) ==
    /\ pc = "reset_flags"
    /\ run.db_errors + Faults(<<ok1, ok2, ok3, ok4>>) <= MaxFaults
    \* a database error is followed where it has something to roll back
    /\ ok1 \/ sync_data.deleted # << >> \/ session_issues # << >>
    /\ ok2 \/ sync_data.out_of_stock # << >>
    /\ ok3 \/ sync_data.not_for_sale # << >>
    /\ ok4 \/ sync_data.stock_updates # << >>
    /\ LET r1 == set_single_value_on_list(deleted, sync_data.deleted, ok1)
           r2 == set_single_value_on_list(items, sync_data.out_of_stock, ok2)
           r3 == set_single_value_on_list(r2.table, sync_data.not_for_sale, ok3)
           r4 == set_single_value_on_list(r3.table, sync_data.stock_updates, ok4)
       IN  /\ deleted' = r1.table
           /\ items' = r4.table
           /\ issues' = IF ok1 THEN issues \o session_issues ELSE issues
           /\ session_issues' = << >>
           /\ sync_history' = Append(sync_history, SyncRecord("SYNC", error_code))
           /\ run' = [run EXCEPT !.flags_reset = TRUE, !.records = @ + 1,
                                 !.reset_failed = ~(ok1 /\ ok2 /\ ok3 /\ ok4),
                                 !.db_errors = @ + Faults(<<ok1, ok2, ok3, ok4>>)]
    /\ pc' = "complete"
    /\ UNCHANGED <<purchase_history, error_code, webshop_purchases, k, stock_result,
                   sync_data, snap, delivered, pc2, op_result>>

\* ----------------------------------------------------------- the reset run
\* requests.post(store_reset_url) in webshop_reset: status 200, another
\* status, a ConnectionError (the one exception the handler catches), or
\* any other exception of requests, which leaves the handler.
WipeOutcomes == {"ok", "status", "conn", "error"}
\* (mutant) error_code = 1 in both branches
WipeErrorCode_always_one(outcome) == IF outcome = "ok" THEN 0 ELSE 1
WipeErrorCode(outcome) ==
    IF outcome = "ok" THEN 0 ELSE IF outcome = "status" THEN 1 ELSE 2

\* webshop_reset(), lines 309-354: the wipe request and what it decides.
ResetWipe(outcome) ==
    /\ pc = "idle"
    /\ Len(sync_history) < MaxRuns
    /\ snap' = TakeSnap
    /\ IF outcome = "error"
       THEN /\ pc' = "aborted"
            /\ run' = [NoRun EXCEPT !.type = "RESET", !.wipe = outcome, !.wipe_calls = 1]
            /\ UNCHANGED <<error_code, sync_data, sync_history, issues, session_issues>>
       ELSE /\ error_code' = WipeErrorCode(outcome)
            /\ IF WipeErrorCode(outcome) # 0
               THEN /\ WriteAudit("RESET", WipeErrorCode(outcome))
                    /\ run' = [NoRun EXCEPT !.type = "RESET", !.wipe = outcome,
                                            !.wipe_calls = 1, !.records = 1]
                    /\ pc' = "failed"
                    /\ UNCHANGED sync_data
               ELSE /\ sync_data' = BuildResetData(items)
                    /\ run' = [NoRun EXCEPT !.type = "RESET", !.wipe = outcome,
                                            !.wipe_calls = 1,
                                            !.sent_items = ResetIds(items)]
                    /\ pc' = "r_upload"
                    /\ UNCHANGED <<sync_history, issues, session_issues>>
    /\ UNCHANGED <<items, deleted, purchase_history, webshop_purchases, k, stock_result,
                   delivered, pc2, op_result>>

\* webshop_reset(), lines 357-381: the upload of the catalog, the flag reset
\* after a successful upload, and the record of the run.
ResetUpload(outcome, db_ok) ==
    /\ pc = "r_upload"
    /\ db_ok \/ (~UploadFailed(outcome) /\ sync_data.stock_updates # << >>)
    /\ LET r == set_single_value_on_list(items, sync_data.stock_updates, db_ok)
           code == IF UploadFailed(outcome) THEN 1 ELSE error_code
       IN  /\ error_code' = code
           /\ items' = IF UploadFailed(outcome) THEN items ELSE r.table
           /\ sync_history' = Append(sync_history, SyncRecord("RESET", code))
           /\ run' = [run EXCEPT !.upload = outcome, !.post_calls = @ + 1,
                                 !.records = @ + 1,
                                 !.flags_reset = ~UploadFailed(outcome),
                                 !.reset_failed = ~db_ok,
                                 !.db_errors = @ + Faults(<<db_ok>>)]
           /\ delivered' = IF UploadFailed(outcome) THEN delivered
                           ELSE Deliver(run.sent_items)
           /\ pc' = IF code = 0 THEN "complete" ELSE "failed"
    /\ UNCHANGED <<deleted, purchase_history, issues, session_issues,
                   webshop_purchases, k, stock_result, sync_data, snap, pc2, op_result>>

\* The response is rendered: the request is over.
Finish ==
    /\ pc \in {"complete", "failed", "aborted"}
    /\ pc' = "idle"
    /\ error_code' = 0
    /\ webshop_purchases' = << >>
    /\ k' = 0
    /\ stock_result' = [success |-> TRUE, issues_raised |-> 0]
    /\ sync_data' = EmptyPayload
    /\ run' = NoRun
    /\ snap' = NoSnap
    /\ UNCHANGED <<tables, delivered, pc2, op_result>>

\* ------------------------------------------------------ the specification
Next ==
    \/ \E c \in Codes, s \in ItemStatus, u \in 0..MaxUnits : AddItem(c, s, u)
    \/ \E i \in DOMAIN items, c \in Codes, s \in ItemStatus, u \in 0..MaxUnits :
          EditItem(i, c, s, u)
    \/ \E i \in DOMAIN items, ok \in BOOLEAN : DeleteItem(i, ok)
    \/ \E o \in DownloadOutcomes, b \in Batches : SyncDownload(o, b)
    \/ \E ok \in BOOLEAN : UpdatePurchaseData(ok)
    \/ \E ok \in BOOLEAN : UpdateStockData(ok)
    \/ SyncCheck
    \/ \E o \in UploadOutcomes : SyncUpload(o)
    \/ \E ok1, ok2, ok3, ok4 \in BOOLEAN : SyncResetFlags(ok1, ok2, ok3, ok4)
    \/ \E o \in WipeOutcomes : ResetWipe(o)
    \/ \E o \in UploadOutcomes, ok \in BOOLEAN : ResetUpload(o, ok)
    \/ Finish

Spec == Init /\ [][Next]_vars

\* ------------------------------------------------- two requests at a time
\* The server is started with app.run(debug=True), which serves each request
\* in a thread of its own, and neither sync() nor webshop_reset() takes a
\* lock: a second POST /sync is served while a run is between its download
\* and its flag reset. The second request is followed on the path where its
\* download fails; the runs work on the stock as the process found it.
InFlight == pc \in {"store_history", "apply_stock", "check", "upload",
                    "reset_flags", "r_upload"}

\* sync(), lines 100-155, in the second request: nothing is tested before
\* download_data is called; the download fails, error_code = 1.
OverlappingDownload(outcome) ==
    /\ InFlight
    /\ pc2 = "idle"
    /\ ~download_success(outcome)
    /\ pc2' = "check"
    /\ UNCHANGED <<tables, locals, run, snap, delivered, op_result>>

\* sync(), lines 158-169, in the second request: its record is written (the
\* session is the thread's own: nothing of the first request is committed)
\* and the failure page is returned.
OverlappingRecord ==
    /\ pc2 = "check"
    /\ sync_history' = Append(sync_history, SyncRecord("SYNC", 1))
    /\ pc2' = "failed"
    /\ UNCHANGED <<items, deleted, purchase_history, issues, session_issues,
                   locals, run, snap, delivered, op_result>>

NextOverlap ==
    \/ \E o \in DownloadOutcomes, b \in Batches : SyncDownload(o, b)
    \/ \E ok \in BOOLEAN : UpdatePurchaseData(ok)
    \/ \E ok \in BOOLEAN : UpdateStockData(ok)
    \/ SyncCheck
    \/ \E o \in UploadOutcomes : SyncUpload(o)
    \/ \E ok1, ok2, ok3, ok4 \in BOOLEAN : SyncResetFlags(ok1, ok2, ok3, ok4)
    \/ \E o \in WipeOutcomes : ResetWipe(o)
    \/ \E o \in UploadOutcomes, ok \in BOOLEAN : ResetUpload(o, ok)
    \/ Finish
    \/ \E o \in DownloadOutcomes : OverlappingDownload(o)
    \/ OverlappingRecord

SpecOverlap == Init /\ [][NextOverlap]_vars

\* ------------------------------------------- an edit while a run is served
\* edit_item served, in a thread of its own, while sync() is between the
\* queries that build sync_data and its flag resets: the form fields are
\* written and requires_sync is set, in one commit.
EditDuringRun(id, code, status, units) ==
    /\ pc \in {"upload", "reset_flags"}
    /\ run.type = "SYNC"
    /\ run.edited = {}
    /\ id \in DOMAIN items
    /\ First(items, code) \in {0, id}
    /\ items' = [items EXCEPT ![id] =
                    [@ EXCEPT !.code = code, !.status = status,
                              !.units_in_stock = units, !.requires_sync = TRUE]]
    /\ delivered' = [i \in DOMAIN delivered \ {id} |-> delivered[i]]
    /\ run' = [run EXCEPT !.edited = {id}]
    /\ UNCHANGED <<deleted, purchase_history, issues, sync_history, session_issues,
                   locals, snap, pc2, op_result>>

NextEdit ==
    \/ \E c \in Codes, s \in ItemStatus, u \in 0..MaxUnits : AddItem(c, s, u)
    \/ \E o \in DownloadOutcomes, b \in Batches : SyncDownload(o, b)
    \/ \E ok \in BOOLEAN : UpdatePurchaseData(ok)
    \/ \E ok \in BOOLEAN : UpdateStockData(ok)
    \/ SyncCheck
    \/ \E o \in UploadOutcomes : SyncUpload(o)
    \/ \E ok1, ok2, ok3, ok4 \in BOOLEAN : SyncResetFlags(ok1, ok2, ok3, ok4)
    \/ \E i \in DOMAIN items, c \in Codes, s \in ItemStatus, u \in 0..MaxUnits :
          EditDuringRun(i, c, s, u)
    \/ Finish

SpecEdit == Init /\ [][NextEdit]_vars

\* --------------------------------------- the store returns a batch again
\* A sync run has ended and the next POST /sync is served: sync(), lines
\* 100-155, where download_data succeeds and the store returns the events of
\* the run before once more (the warehouse sends the store nothing that tells
\* it which events it has applied, and sync() compares the purchase_code of
\* an event with nothing).
Redownload ==
    /\ pc \in {"complete", "failed"}
    /\ run.type = "SYNC"
    /\ ~run.redelivered
    /\ webshop_purchases # << >>
    /\ snap' = TakeSnap
    /\ run' = [NoRun EXCEPT !.type = "SYNC", !.download = "ok", !.get_calls = 1,
                            !.redelivered = TRUE, !.earlier = run.applied]
    /\ webshop_purchases' = webshop_purchases
    /\ error_code' = 0
    /\ pc' = "store_history"
    /\ k' = 0
    /\ stock_result' = [success |-> TRUE, issues_raised |-> 0]
    /\ sync_data' = EmptyPayload
    /\ UNCHANGED <<tables, delivered, pc2, op_result>>

NextRedelivery ==
    \/ \E c \in Codes, s \in ItemStatus, u \in 0..MaxUnits : AddItem(c, s, u)
    \/ \E o \in DownloadOutcomes, b \in Batches : SyncDownload(o, b)
    \/ \E ok \in BOOLEAN : UpdatePurchaseData(ok)
    \/ \E ok \in BOOLEAN : UpdateStockData(ok)
    \/ SyncCheck
    \/ \E o \in UploadOutcomes : SyncUpload(o)
    \/ \E ok1, ok2, ok3, ok4 \in BOOLEAN : SyncResetFlags(ok1, ok2, ok3, ok4)
    \/ Redownload
    \/ Finish

SpecRedelivery == Init /\ [][NextRedelivery]_vars

\* ------------------------------------- set_single_value_on_list on its own
MaxList == 3     \* longest list of delivered entries

\* The entries of a list passed as items_to_update: dictionaries with the
\* key 'code', and one without it.
ReconcileEntries == {[code |-> "A"], [code |-> "B"], [units_in_stock |-> 1]}
ReconcileLists   == UNION {[1..n -> ReconcileEntries] : n \in 0..MaxList}

\* Tables of items with unique codes, any flags.
ReconcileTables ==
    {t \in UNION {[1..n -> [code : Codes, status : {"FOR_SALE"}, units_in_stock : {1},
                            units_purchased : {0}, requires_sync : BOOLEAN]] :
                  n \in 0..Cardinality(Codes)} :
        \A i, j \in DOMAIN t : t[i].code = t[j].code => i = j}

InitReconcile ==
    /\ items \in ReconcileTables
    /\ sync_data \in {[EmptyPayload EXCEPT !.stock_updates = l] : l \in ReconcileLists}
    /\ pc = "reconcile"
    /\ deleted = << >>
    /\ purchase_history = << >>
    /\ issues = << >>
    /\ sync_history = << >>
    /\ session_issues = << >>
    /\ error_code = 0
    /\ webshop_purchases = << >>
    /\ k = 0
    /\ stock_result = [success |-> TRUE, issues_raised |-> 0]
    /\ run = NoRun
    /\ snap = NoSnap
    /\ delivered = << >>
    /\ pc2 = "idle"
    /\ op_result = NoResult

\* result = set_single_value_on_list(Item, 'code', items_to_update, 'code',
\* 'requires_sync', False): result.update(...) is given result_code,
\* updated_count and not_found_count; erroneous_count keeps the value
\* OperationResult() gave it.
Reconcile(db_ok) ==
    /\ pc = "reconcile"
    /\ LET r == set_single_value_on_list(items, sync_data.stock_updates, db_ok)
       IN  /\ items' = r.table
           /\ op_result' = [result_code |-> r.result_code, updated_count |-> r.updated,
                         not_found_count |-> r.not_found,
                         erroneous_count |-> r.erroneous]
    /\ snap' = [NoSnap EXCEPT !.items = items]
    /\ pc' = "reconciled"
    /\ UNCHANGED <<deleted, purchase_history, issues, sync_history, session_issues,
                   error_code, webshop_purchases, k, stock_result, sync_data, run,
                   delivered, pc2>>

NextReconcile == \E ok \in BOOLEAN : Reconcile(ok)

SpecReconcile == InitReconcile /\ [][NextReconcile]_vars

\* ================================================================ claims
Terminal == pc \in {"complete", "failed", "aborted"}

\* requires_sync of every row of a table
Flags(table) == [i \in DOMAIN table |-> table[i].requires_sync]

PendingItems == {i \in DOMAIN items : items[i].requires_sync}

LastAudit == sync_history[Len(sync_history)]

\* C1: after a sync run whose upload succeeded (and whose flag resets were
\* all committed), requires_sync is false for every item and every deleted
\* item the payload was built from, and is what it was when the run began
\* for every other row.
C1_FlagsAfterUpload ==
    (pc = "complete" /\ run.type = "SYNC" /\ ~run.reset_failed) =>
        /\ \A i \in run.sent_items : i \in DOMAIN items /\ ~items[i].requires_sync
        /\ \A j \in run.sent_deleted : ~deleted[j].requires_sync
        /\ \A i \in DOMAIN items \ run.sent_items :
              items[i].requires_sync = snap.items[i].requires_sync
        /\ \A j \in DOMAIN deleted \ run.sent_deleted :
              deleted[j].requires_sync = snap.deleted[j].requires_sync

\* C2: a sync run whose upload failed (falsy body, non-200 status, no
\* connection) has ended FAILED with one record of error code 1, has reset
\* no flag, every requires_sync is what it was when the run began, and the
\* categorizer run again gives the payload the run built.
C2_UploadFailureKeepsFlags ==
    (run.type = "SYNC" /\ run.upload \in {"falsy", "status", "conn"}) =>
        /\ pc = "failed"
        /\ run.records = 1
        /\ Len(sync_history) = snap.audits + 1
        /\ LastAudit = SyncRecord("SYNC", 1)
        /\ ~run.flags_reset
        /\ Flags(items) = Flags(snap.items)
        /\ Flags(deleted) = Flags(snap.deleted)
        /\ BuildSyncData(items, deleted) = sync_data

C2_Witness ==
    /\ pc = "failed"
    /\ run.type = "SYNC"
    /\ run.upload = "falsy"
    /\ run.applied # {}
    /\ sync_data.deleted # << >>
    /\ sync_data.stock_updates # << >>

\* C3: in every state the three item categories are pairwise disjoint and
\* cover exactly the pending items, the deleted category is exactly the
\* pending deleted items, and the payload has one entry per pending row.
C3_CategoriesPartition ==
    LET nfs  == NotForSaleIds(items)
        oos  == OutOfStockIds(items)
        upd  == StockUpdateIds(items)
        data == BuildSyncData(items, deleted)
    IN  /\ nfs \cap oos = {}
        /\ nfs \cap upd = {}
        /\ oos \cap upd = {}
        /\ nfs \cup oos \cup upd = PendingItems
        /\ Len(data.not_for_sale) + Len(data.out_of_stock) + Len(data.stock_updates)
              = Cardinality(PendingItems)
        /\ Len(data.deleted)
              = Cardinality({j \in DOMAIN deleted : deleted[j].requires_sync})

C3_Witness ==
    /\ OutOfStockIds(items) # {}
    /\ DeletedIds(deleted) # {}
    /\ \E i \in DOMAIN items : ~items[i].requires_sync
    /\ \E j \in DOMAIN deleted : ~deleted[j].requires_sync

\* C4: a sync run whose download failed applies no purchase (no row of
\* purchase_history, items or issues changes), makes no upload, resets no
\* flag, and ends with one record of error code 1.
C4_DownloadFailure ==
    (run.type = "SYNC" /\ run.download \in {"status", "conn"}) =>
        /\ pc \in {"check", "failed"}
        /\ error_code = 1
        /\ items = snap.items
        /\ deleted = snap.deleted
        /\ Len(purchase_history) = snap.history
        /\ Len(issues) = snap.issues
        /\ session_issues = << >>
        /\ run.applied = {}
        /\ run.post_calls = 0
        /\ ~run.flags_reset
        /\ pc = "failed" =>
              /\ run.records = 1
              /\ Len(sync_history) = snap.audits + 1
              /\ LastAudit = SyncRecord("SYNC", 1)

C4_Witness ==
    /\ pc = "failed"
    /\ run.type = "SYNC"
    /\ run.download = "conn"
    /\ PendingItems # {}
    /\ \E i \in DOMAIN items : items[i].units_in_stock > 0

\* C5: a sync run whose purchase history could not be stored applies no
\* stock effect of the batch, makes no upload, resets no flag, and ends
\* FAILED with one record of error code 2.
C5_HistoryFailureStopsRun ==
    (run.type = "SYNC" /\ run.history = "fail") =>
        /\ items = snap.items
        /\ run.applied = {}
        /\ run.post_calls = 0
        /\ ~run.flags_reset
        /\ error_code = 2
        /\ Terminal => (pc = "failed" /\ run.records = 1
                        /\ LastAudit = SyncRecord("SYNC", 2))

\* C6: a sync run that stored the purchase history and in which
\* update_stock_data reported success = false has ended FAILED with one
\* record of error code 3, without upload or flag reset.
C6_StockFailureCode3 ==
    (Terminal /\ run.type = "SYNC" /\ run.history = "ok" /\ ~stock_result.success) =>
        /\ pc = "failed"
        /\ run.records = 1
        /\ LastAudit = SyncRecord("SYNC", 3)
        /\ run.post_calls = 0
        /\ ~run.flags_reset

\* C7: a run that has ended, whatever its transport calls returned, has
\* written exactly one record, of its own type, after the records that
\* were there.
C7_OneRecordPerRun ==
    Terminal =>
        /\ run.records = 1
        /\ Len(sync_history) = snap.audits + 1
        /\ LastAudit.connection_type = run.type

\* Every phase of the run succeeded.
AllPhasesSucceeded ==
    IF run.type = "SYNC"
    THEN /\ run.download = "ok"
         /\ run.history # "fail"
         /\ stock_result.success
         /\ run.upload = "truthy"
    ELSE /\ run.wipe = "ok"
         /\ run.upload = "truthy"

\* C8: the record of a run has error code 0 exactly if every phase of the
\* run succeeded.
C8_CodeZeroIffAllPhases ==
    (Terminal /\ run.records = 1) =>
        (LastAudit.error_code = 0 <=> AllPhasesSucceeded)

\* C9: after a successful APPLYING phase the rows added to purchase_history
\* are the events of the batch, one per event, in arrival order.
C9_OneRecordPerEvent ==
    (/\ run.type = "SYNC"
     /\ run.history = "ok"
     /\ stock_result.success
     /\ pc \notin {"store_history", "apply_stock"}) =>
        /\ Len(purchase_history) = snap.history + Len(webshop_purchases)
        /\ \A n \in 1..Len(webshop_purchases) :
              purchase_history[snap.history + n] = webshop_purchases[n]

\* The pass of update_stock_data about to run handles an event whose code
\* is neither in items nor in deleted_items.
AtUnknownCode ==
    /\ pc = "apply_stock"
    /\ First(items, webshop_purchases[k].code) = 0
    /\ First(deleted, webshop_purchases[k].code) = 0

\* The Issue rows stored or in the session, of one kind
Tickets(kind) ==
    Len(SelectSeq(issues \o session_issues, LAMBDA t : t.kind = kind))

\* C10: the pass that handles an event with an unknown code leaves exactly
\* one more "not found" Issue to be stored and changes no row of items or
\* deleted_items.
C10_UnknownCodeOneTicket ==
    [][AtUnknownCode =>
          /\ Tickets("not_found")' = Tickets("not_found") + 1
          /\ items' = items
          /\ deleted' = deleted]_vars

\* ---------------------------------------------------------------- C11
\* The event the next pass of update_stock_data handles, and the rows
\* its two lookups find (0: none).
Event       == webshop_purchases[k]
LiveItem    == First(items, Event.code)
DeletedItem == First(deleted, Event.code)

\* The pass about to run handles an event whose code only deleted_items holds.
AtDeletedOnly ==
    /\ pc = "apply_stock"
    /\ LiveItem = 0
    /\ DeletedItem # 0

\* The events of the batch whose code only deleted_items held when the run began.
DeletedOnlyEvents ==
    {n \in DOMAIN webshop_purchases :
        /\ First(snap.items, webshop_purchases[n].code) = 0
        /\ First(snap.deleted, webshop_purchases[n].code) # 0}

\* The events of the batch whose code both tables held when the run began.
LiveAndDeletedEvents ==
    {n \in DOMAIN webshop_purchases :
        /\ First(snap.items, webshop_purchases[n].code) # 0
        /\ First(snap.deleted, webshop_purchases[n].code) # 0}

\* The Issue rows the run has stored so far, of one kind
StoredTickets(kind) ==
    Len(SelectSeq(SubSeq(issues, snap.issues + 1, Len(issues)),
                  LAMBDA t : t.kind = kind))

\* C11: the pass that handles an event whose code is found only among the
\* deleted items leaves exactly one more "purchase on deleted item" Issue to
\* be stored, changes no row of deleted_items or items, reports no failure
\* and goes on to the next event; and a sync run that met no database error
\* has, when it ends, stored exactly one such Issue per such event (in a
\* batch with no event whose code is live and deleted at once).
C11_DeletedItemOneTicket ==
    /\ [][AtDeletedOnly =>
             /\ Tickets("deleted")' = Tickets("deleted") + 1
             /\ Len(issues')  + Len(session_issues') = Len(issues) + Len(session_issues) + 1
             /\ deleted' = deleted
             /\ items' = items
             /\ stock_result'.success
             /\ k' = k + 1
             /\ pc' = IF k < Len(webshop_purchases) THEN "apply_stock" ELSE "check"]_vars
    /\ [](Terminal /\ run.type = "SYNC" /\ run.db_errors = 0
                   /\ LiveAndDeletedEvents = {} =>
             /\ session_issues = << >>
             /\ StoredTickets("deleted") = Cardinality(DeletedOnlyEvents))

C11_Witness ==
    /\ pc = "complete"
    /\ run.type = "SYNC"
    /\ Len(webshop_purchases) = 2
    /\ DeletedOnlyEvents = {1}
    /\ StoredTickets("deleted") = 1
    /\ items # << >>

\* ---------------------------------------------------------------- C12
\* The pass about to run handles an event whose code a row of items holds.
AtLiveItem ==
    /\ pc = "apply_stock"
    /\ LiveItem # 0

\* All the Issue rows stored or in the session
AllTickets == Len(issues) + Len(session_issues)

\* C12: a pass that handles, without database error, an event on a live
\* item whose quantity is at least the item's units_in_stock leaves the item
\* with units_in_stock = 0 and units_purchased increased by the quantity,
\* and exactly one more Issue ("running out of stock").
C12_UnderflowClampsToZero ==
    [][(/\ AtLiveItem
        /\ Event.quantity >= items[LiveItem].units_in_stock
        /\ stock_result'.success) =>
          /\ items'[LiveItem].units_in_stock = 0
          /\ items'[LiveItem].units_purchased
                = items[LiveItem].units_purchased + Event.quantity
          /\ AllTickets' = AllTickets + 1
          /\ Tickets("out_of_stock")' = Tickets("out_of_stock") + 1]_vars

\* ---------------------------------------------------------------- C13
\* C13: a pass that handles, without database error, an event on a live
\* item whose quantity is less than the item's units_in_stock leaves the
\* item with units_in_stock reduced by the quantity and units_purchased
\* increased by it, and raises no Issue.
C13_PurchaseReducesStock ==
    [][(/\ AtLiveItem
        /\ Event.quantity < items[LiveItem].units_in_stock
        /\ stock_result'.success) =>
          /\ items'[LiveItem].units_in_stock
                = items[LiveItem].units_in_stock - Event.quantity
          /\ items'[LiveItem].units_purchased
                = items[LiveItem].units_purchased + Event.quantity
          /\ AllTickets' = AllTickets
          /\ stock_result'.issues_raised = stock_result.issues_raised]_vars

\* ---------------------------------------------------------------- C14
\* C14: a pass of update_stock_data that changes units_in_stock or
\* units_purchased of an item leaves that item with requires_sync = TRUE;
\* a pass that handles an event whose code is not live changes no
\* requires_sync.
C14_MutationSetsFlag ==
    [][pc = "apply_stock" =>
          /\ \A i \in DOMAIN items :
                (\/ items'[i].units_in_stock # items[i].units_in_stock
                 \/ items'[i].units_purchased # items[i].units_purchased)
                   => items'[i].requires_sync
          /\ LiveItem = 0 => (Flags(items') = Flags(items)
                              /\ Flags(deleted') = Flags(deleted))]_vars

\* ---------------------------------------------------------------- C15
\* C15: in every state, an item whose outbound fields differ from what the
\* store was last sent for it has requires_sync = TRUE.
C15_FlagWheneverChanged ==
    \A i \in DOMAIN items \cap DOMAIN delivered :
        Visible(items[i]) # delivered[i] => items[i].requires_sync

\* ---------------------------------------------------------------- C16
\* The step about to be taken is the flag reset of a run whose upload the
\* store accepted (in a reset run the upload and the flag reset are one step).
FlagResetStep ==
    \/ pc = "reset_flags" /\ run.upload = "truthy"
    \/ pc = "r_upload" /\ run'.upload = "truthy"

C17_OneRunAtATime ==
    /\ ~(InFlight /\ pc2 = "check")
    /\ pc2 # "failed"

\* ---------------------------------------------------------------- C18
\* C18: units_in_stock of every item is non-negative in every state.
C18_StockNeverNegative ==
    \A i \in DOMAIN items : items[i].units_in_stock >= 0

\* A run applied two purchases to one item, one of them for more than the
\* item held, and a purchase of nothing was applied too.
C18_Witness ==
    /\ pc = "check"
    /\ run.applied = {1, 2}
    /\ webshop_purchases[1].quantity = 0
    /\ webshop_purchases[2].quantity > snap.items[First(snap.items, "A")].units_in_stock
    /\ items[First(items, "A")].units_in_stock = 0

\* ---------------------------------------------------------------- C19
\* C19: in a sync run that downloaded its batch and met no database error,
\* whatever anomalies the batch raised, update_stock_data reports success,
\* no error code is set before the upload, the only way to fail is the
\* upload, and after a successful upload the run is COMPLETE with the flags
\* reset and a record of error code 0.
C19_AnomaliesNeverFail ==
    (/\ run.type = "SYNC"
     /\ run.download = "ok"
     /\ run.db_errors = 0
     /\ pc \notin {"store_history", "apply_stock"}) =>
        /\ stock_result.success
        /\ pc \in {"check", "upload", "reset_flags"} => error_code = 0
        /\ pc = "failed" => run.upload \in {"falsy", "status", "conn"}
        /\ run.upload = "truthy" /\ Terminal =>
              /\ pc = "complete"
              /\ run.flags_reset
              /\ LastAudit = SyncRecord("SYNC", 0)

\* A run with an unknown code and an underflow or a purchase on a deleted
\* item in its batch has completed.
C19_Witness ==
    /\ pc = "complete"
    /\ run.type = "SYNC"
    /\ run.db_errors = 0
    /\ stock_result.issues_raised = 2
    /\ \E n \in DOMAIN webshop_purchases : webshop_purchases[n].code = "Z"
    /\ StoredTickets("out_of_stock") + StoredTickets("deleted") = 1

C21_ResetPushFailure ==
    (/\ run.type = "RESET"
     /\ run.wipe = "ok"
     /\ run.upload \in {"falsy", "status", "conn"}) =>
        /\ pc = "failed"
        /\ run.records = 1
        /\ Len(sync_history) = snap.audits + 1
        /\ LastAudit = SyncRecord("RESET", 1)
        /\ run.wipe_calls = 1
        /\ run.post_calls = 1
        /\ ~run.flags_reset
        /\ items = snap.items
        /\ deleted = snap.deleted

C21_Witness ==
    /\ pc = "failed"
    /\ run.type = "RESET"
    /\ run.wipe = "ok"
    /\ run.upload = "status"
    /\ \E i \in ResetIds(items) : items[i].requires_sync

\* ---------------------------------------------------------------- C22
\* The items for sale and in stock when the run began
ForSaleInStock ==
    {i \in DOMAIN snap.items :
        snap.items[i].status = "FOR_SALE" /\ snap.items[i].units_in_stock > 0}

Malformed == {n \in DOMAIN sync_data.stock_updates :
                 "code" \notin DOMAIN sync_data.stock_updates[n]}
Matching  == {n \in DOMAIN sync_data.stock_updates \ Malformed :
                 First(snap.items, sync_data.stock_updates[n].code) # 0}
Missing   == {n \in DOMAIN sync_data.stock_updates \ Malformed :
                 First(snap.items, sync_data.stock_updates[n].code) = 0}

\* C23: the result of a call of set_single_value_on_list that committed
\* counts the entries with a key whose row exists as updated, those with a
\* key and no row as not found, those without the key as erroneous, and the
\* three counts add up to the length of the list.
C23_CountsAddUp ==
    (pc = "reconciled" /\ op_result.result_code = "SUCCESS") =>
        /\ op_result.updated_count = Cardinality(Matching)
        /\ op_result.not_found_count = Cardinality(Missing)
        /\ op_result.erroneous_count = Cardinality(Malformed)
        /\ op_result.updated_count + op_result.not_found_count + op_result.erroneous_count
              = Len(sync_data.stock_updates)

C25_DeletedAppendOnly ==
    [][/\ Len(deleted') >= Len(deleted)
       /\ \A j \in DOMAIN deleted :
             [deleted'[j] EXCEPT !.requires_sync = deleted[j].requires_sync]
                = deleted[j]]_vars

\* Two items were deleted, a purchase on a deleted item was handled, and a
\* run has reset the flag of a deleted row.
C25_Witness ==
    /\ pc = "complete"
    /\ Len(deleted) = 2
    /\ deleted[1].code # deleted[2].code
    /\ ~deleted[1].requires_sync
    /\ StoredTickets("deleted") = 1

\* ---------------------------------------------------------------- C26
\* C26: a sync run calls the purchases endpoint once and the bulk-update
\* endpoint at most once, a reset run calls the reset endpoint once and the
\* bulk-update endpoint at most once; after a failed transport call the run
\* makes no other call and ends.
C26_NoRetry ==
    /\ run.get_calls <= 1
    /\ run.post_calls <= 1
    /\ run.wipe_calls <= 1
    /\ run.type = "SYNC" => (run.get_calls = 1 /\ run.wipe_calls = 0)
    /\ run.type = "RESET" => (run.get_calls = 0 /\ run.wipe_calls = 1)
    /\ (run.type = "SYNC" /\ run.download # "ok") =>
          /\ run.post_calls = 0
          /\ pc \in {"check", "failed"}
          /\ error_code = 1
    /\ (run.type = "RESET" /\ run.wipe # "ok") =>
          /\ run.post_calls = 0
          /\ pc \in {"failed", "aborted"}
    /\ run.upload \in {"falsy", "status", "conn"} =>
          /\ run.post_calls = 1
          /\ pc = "failed"

C26_Witness ==
    /\ pc = "failed"
    /\ run.type = "SYNC"
    /\ run.upload = "conn"
    /\ run.get_calls = 1
    /\ run.post_calls = 1
    /\ run.applied # {}

\* ---------------------------------------------------------------- C27
\* The sync run has built its payload.
PayloadBuilt ==
    /\ run.type = "SYNC"
    /\ \/ pc \in {"upload", "reset_flags", "complete"}
       \/ pc = "failed" /\ run.post_calls = 1

\* C27: every entry of the payload of a sync run is an item as
\* update_stock_data left it: a stock update carries the item's present
\* units_in_stock, which is positive, an out-of-stock entry is an item that
\* now has no units, a not-for-sale entry an item not for sale; and until the
\* flags are reset the payload is what the categorizer gives on the tables
\* as they are.
C27_PayloadAfterApply ==
    PayloadBuilt =>
        /\ pc \in {"upload", "reset_flags", "failed"} =>
              sync_data = BuildSyncData(items, deleted)
        /\ \A n \in DOMAIN sync_data.stock_updates :
              LET e == sync_data.stock_updates[n]
                  i == First(items, e.code)
              IN  /\ i \in run.sent_items
                  /\ items[i].status = "FOR_SALE"
                  /\ e.units_in_stock = items[i].units_in_stock
                  /\ e.units_in_stock > 0
        /\ \A n \in DOMAIN sync_data.out_of_stock :
              LET i == First(items, sync_data.out_of_stock[n].code)
              IN  /\ i \in run.sent_items
                  /\ items[i].status = "FOR_SALE"
                  /\ items[i].units_in_stock = 0
        /\ \A n \in DOMAIN sync_data.not_for_sale :
              LET i == First(items, sync_data.not_for_sale[n].code)
              IN  /\ i \in run.sent_items
                  /\ items[i].status = "NOT_FOR_SALE"

\* The payload holds an item that the run's purchases brought from two
\* units to one, or from in stock to out of stock.
C27_Witness ==
    /\ pc = "reset_flags"
    /\ run.applied # {}
    /\ \E i \in run.sent_items :
          /\ snap.items[i].units_in_stock > items[i].units_in_stock
          /\ \/ \E n \in DOMAIN sync_data.stock_updates :
                   sync_data.stock_updates[n].code = items[i].code
             \/ \E n \in DOMAIN sync_data.out_of_stock :
                   sync_data.out_of_stock[n].code = items[i].code

\* ---------------------------------------------------------------- C28
\* C28: a pass that handles, without database error, an event on a live
\* item leaves that item with units_in_stock = max(0, units_in_stock -
\* quantity) and units_purchased increased by the quantity, and adds no
\* "purchase on deleted item" Issue, also when deleted_items holds a row with
\* the same code.
C28_LiveItemWinsOverTombstone ==
    [][(/\ AtLiveItem
        /\ stock_result'.success) =>
          /\ items'[LiveItem].units_in_stock
                = Max({0, items[LiveItem].units_in_stock - Event.quantity})
          /\ items'[LiveItem].units_purchased
                = items[LiveItem].units_purchased + Event.quantity
          /\ Tickets("deleted")' = Tickets("deleted")]_vars

\* ---------------------------------------------------------------- C29
\* C29: the pass of update_stock_data that meets a database error leaves
\* items, deleted_items, purchase_history and the stored Issue rows as they
\* were, empties the session (rollback), reports success = False and ends the
\* loop; from then on the run handles no further event, the events it has
\* committed all come before the failing one, and no Issue row is stored
\* during the rest of the run.
C29_DbErrorRollsBack ==
    /\ [][(pc = "apply_stock" /\ ~stock_result'.success) =>
             /\ items' = items
             /\ deleted' = deleted
             /\ purchase_history' = purchase_history
             /\ issues' = issues
             /\ session_issues' = << >>
             /\ pc' = "check"]_vars
    /\ [][(~stock_result.success /\ run.type = "SYNC" /\ run'.type = "SYNC") =>
             /\ issues' = issues
             /\ run'.applied = run.applied]_vars
    /\ [](~stock_result.success =>
             /\ pc # "apply_stock"
             /\ run.type = "SYNC" => \A n \in run.applied : n < k - 1)

\* The second event of a batch met the database error after the first was
\* committed.
C29_Witness ==
    /\ pc = "check"
    /\ ~stock_result.success
    /\ k = 3
    /\ run.applied = {1}
    /\ items # snap.items

\* ---------------------------------------------------------------- C30
\* The table and the number of "running out of stock" tickets that applying
\* the first n events of the batch one after another to the live items gives:
\* each event takes its quantity from the item as the events before it left
\* it, with the result clamped at 0, adds its quantity to units_purchased,
\* and counts one ticket when its own result is <= 0.
RECURSIVE InOrder(_, _, _)
InOrder(it, batch, n) ==
    IF n = 0
    THEN [table |-> it, tickets |-> 0]
    ELSE LET before   == InOrder(it, batch, n - 1)
             i        == First(before.table, batch[n].code)
             quantity == before.table[i].units_in_stock - batch[n].quantity
         IN  IF i = 0
             THEN before
             ELSE [table   |-> [before.table EXCEPT
                                  ![i].units_in_stock = Max({0, quantity}),
                                  ![i].units_purchased = @ + batch[n].quantity],
                   tickets |-> before.tickets + (IF quantity <= 0 THEN 1 ELSE 0)]

\* The loop of update_stock_data has gone through the whole batch without
\* database error.
BatchApplied ==
    /\ run.type = "SYNC"
    /\ pc = "check"
    /\ run.download = "ok"
    /\ stock_result.success
    /\ k = Len(webshop_purchases) + 1

\* C30: when update_stock_data has gone through the batch without database
\* error, every live item has the units_in_stock and units_purchased that
\* applying the events in arrival order, one after another, gives, and the
\* run has stored one "running out of stock" Issue per event whose own
\* result was <= 0.
C30_InOrderCumulative ==
    BatchApplied =>
        LET expected == InOrder(snap.items, webshop_purchases,
                                Len(webshop_purchases))
        IN  /\ \A i \in DOMAIN items :
                  /\ items[i].units_in_stock = expected.table[i].units_in_stock
                  /\ items[i].units_purchased = expected.table[i].units_purchased
            /\ StoredTickets("out_of_stock") = expected.tickets

\* ---------------------------------------------------------------- C31
\* C31: when a sync run that downloaded a batch has ended, the issues_raised
\* that update_stock_data returned is the number of Issue rows the run has
\* stored.
C31_CountIsTicketsStored ==
    (Terminal /\ run.type = "SYNC" /\ run.download = "ok") =>
        stock_result.issues_raised = Len(issues) - snap.issues

\* ---------------------------------------------------------------- C32
\* C32: a sync run whose upload got status 200 with a body Python takes for
\* false has ended FAILED, its record carries error code 1 and no
\* requires_sync was cleared; a sync run whose upload got status 200 with a
\* body taken for true goes on to the flag reset and ends with it done; and
\* the step that receives either body decides so at once.
C32_FalsyBodyIsFailure ==
    /\ [][(pc = "upload" /\ run'.upload = "falsy") =>
             /\ pc' = "failed"
             /\ error_code' = 1
             /\ sync_history' = Append(sync_history, SyncRecord("SYNC", 1))
             /\ items' = items
             /\ deleted' = deleted]_vars
    /\ [][(pc = "upload" /\ run'.upload = "truthy") =>
             /\ pc' = "reset_flags"
             /\ sync_history' = sync_history]_vars
    /\ []((run.type = "SYNC" /\ run.upload = "falsy") =>
             /\ pc = "failed"
             /\ ~run.flags_reset
             /\ LastAudit.error_code = 1
             /\ \A i \in run.sent_items : items[i].requires_sync
             /\ \A j \in run.sent_deleted : deleted[j].requires_sync)
    /\ []((run.type = "SYNC" /\ run.upload = "truthy") =>
             /\ pc \in {"reset_flags", "complete"}
             /\ pc = "complete" => run.flags_reset)

\* The store answered 200 with a falsy body to a payload of pending rows.
C32_Witness ==
    /\ pc = "failed"
    /\ run.type = "SYNC"
    /\ run.upload = "falsy"
    /\ run.sent_items # {}
    /\ run.sent_deleted # {}
    /\ LastAudit = SyncRecord("SYNC", 1)

\* ---------------------------------------------------------------- C33
\* C33: a step taken between runs (add_item, edit_item, delete_item) leaves
\* every row it added to items, every row of items it wrote, and the row it
\* appended to deleted_items with requires_sync = TRUE.
C33_AdminMutationPending ==
    [][(pc = "idle" /\ pc' = "idle") =>
          /\ \A i \in DOMAIN items' \ DOMAIN items : items'[i].requires_sync
          /\ \A i \in DOMAIN items' \cap DOMAIN items :
                items'[i] # items[i] => items'[i].requires_sync
          /\ Len(deleted') > Len(deleted) =>
                deleted'[Len(deleted')].requires_sync]_vars

\* Before any run: an item was deleted, and two items were added or edited.
C33_Witness ==
    /\ pc = "idle"
    /\ sync_history = << >>
    /\ deleted # << >>
    /\ deleted[Len(deleted)].requires_sync
    /\ Cardinality(DOMAIN items) = 2
    /\ \A i \in DOMAIN items : items[i].requires_sync

\* ---------------------------------------------------------------- C34
\* C34: a step taken between runs that removes a row of items or adds a row
\* to deleted_items does both: it removes exactly one item, leaves the other
\* items as they were, and appends exactly one row, with the removed item's
\* code, to deleted_items, whose earlier rows stay as they were.
C34_DeleteIsAtomic ==
    [][(/\ pc = "idle" /\ pc' = "idle"
        /\ \/ DOMAIN items \ DOMAIN items' # {}
           \/ deleted' # deleted) =>
          \E id \in DOMAIN items :
             /\ DOMAIN items' = DOMAIN items \ {id}
             /\ \A i \in DOMAIN items' : items'[i] = items[i]
             /\ Len(deleted') = Len(deleted) + 1
             /\ SubSeq(deleted', 1, Len(deleted)) = deleted
             /\ deleted'[Len(deleted')].code = items[id].code]_vars

\* An item was deleted while another stayed and deleted_items held a row.
C34_Witness ==
    /\ pc = "idle"
    /\ Len(deleted) = 2
    /\ Cardinality(DOMAIN items) = 1
    /\ \A i \in DOMAIN items : items[i].code # deleted[2].code

\* ---------------------------------------------------------------- C35
\* The number of records of a payload
PayloadSize(data) ==
    Len(data.deleted) + Len(data.not_for_sale) + Len(data.out_of_stock)
        + Len(data.stock_updates)

\* C35: the record a sync run has written carries the counts of the run:
\* updates_received is the number of events the download returned, and,
\* when the payload was uploaded, updates_sent is its number of records.
C35_RecordCarriesCounts ==
    (Terminal /\ run.type = "SYNC" /\ run.records = 1) =>
        /\ LastAudit.updates_received = Len(webshop_purchases)
        /\ run.upload = "truthy" => LastAudit.updates_sent = PayloadSize(sync_data)

\* ---------------------------------------------------------------- C36
\* The payload of the run holds the row as it is: its code is in the list of
\* its category, with its units_in_stock where the list carries them.
InPayload(row) ==
    \/ /\ row.status = "NOT_FOR_SALE"
       /\ \E n \in DOMAIN sync_data.not_for_sale :
             sync_data.not_for_sale[n].code = row.code
    \/ /\ row.status = "FOR_SALE" /\ row.units_in_stock = 0
       /\ \E n \in DOMAIN sync_data.out_of_stock :
             sync_data.out_of_stock[n].code = row.code
    \/ /\ row.status = "FOR_SALE"
       /\ \E n \in DOMAIN sync_data.stock_updates :
             /\ sync_data.stock_updates[n].code = row.code
             /\ sync_data.stock_updates[n].units_in_stock = row.units_in_stock

\* C36: when a sync run has completed, every item that edit_item wrote
\* after the run had built its payload and before its flag reset, and whose
\* values are not those the payload holds, has requires_sync = TRUE.
C36_EditedItemStaysPending ==
    (pc = "complete" /\ run.type = "SYNC") =>
        \A i \in run.edited : ~InPayload(items[i]) => items[i].requires_sync

\* ---------------------------------------------------------------- C37
\* No two rows of the table hold the same code.
CodesUnique(table) ==
    \A i, j \in DOMAIN table : table[i].code = table[j].code => i = j

\* C37: in every state no two rows of items hold the same code and no two
\* rows of deleted_items hold the same code.
C37_MatchKeyIsUnique ==
    /\ CodesUnique(items)
    /\ CodesUnique(deleted)

\* ---------------------------------------------------------------- C38
\* C38: in a sync run whose download returned the events of the run before
\* once more, the pass of update_stock_data that handles an event the run
\* before had applied changes no row of items.
C38_EventAppliedOnce ==
    [][(pc = "apply_stock" /\ run.redelivered /\ k \in run.earlier) =>
          items' = items]_vars

====
